---------------------------- MODULE Spec2Model ----------------------------
(***************************************************************************)
(* Ethereum-Indexer: the decode -> codec -> persist pipeline.              *)
(*                                                                         *)
(*   src/src/types/mod.rs   the four wide-type codecs (ToSql / FromSql)    *)
(*                          and the From<Row> readers                      *)
(*   src/src/database.rs    DB: create_table and the five inserts          *)
(*   src/src/decode.rs      initialise and the decode_events loop          *)
(*                                                                         *)
(* A wide integer is held as the sequence of its base-256 digits, least    *)
(* significant digit first (the limb order of U256 and of a little-endian  *)
(* u128).  An address is held as its 20 bytes in storage order.            *)
(***************************************************************************)
EXTENDS Integers, Sequences, FiniteSets, TLC

VARIABLES
    \* --- codec harness (one to_sql / from_sql exchange)
    cpc,        \* "idle" | "encoded" | "raw" | "decoded" | "decodedRaw"
    cty,        \* the codec in use
    cval,       \* the value handed to to_sql (NoValue when the buffer is raw)
    cbuf,       \* the byte buffer handed to from_sql
    cres,       \* the outcome of from_sql
    \* --- the store
    schema,     \* the tables that exist
    tables,     \* table name -> sequence of rows
    creates,    \* history: the create_table calls, each with its outcome
    conn,       \* the connection driven by the spawned task: "none" | "alive" | "dead"
    \* --- the pipeline (initialise / decode_events)
    pc,         \* position of the driver
    cur,        \* the stream item being persisted
    delivered,  \* history: the (event, meta) pairs the stream has yielded
    pending,    \* how many pairs the upstream sequence still holds
    streamEnd,  \* history: how the stream ended ("Open" while it has not)
    result,     \* what initialise returned ("Running" until it returns)
    oplog,      \* history: every fallible operation awaited, in order
    inflight,   \* the storage operations issued and not yet completed
    \* --- the read-back harness (tests/integration_test.rs)
    inserted,   \* history: table name -> the events handed to its insert
    query       \* the four SELECT * results read back through From<Row>

codecVars == <<cpc, cty, cval, cbuf, cres>>
storeVars == <<schema, tables, creates, conn>>
pipeVars  == <<pc, cur, delivered, pending, streamEnd, result, oplog, inflight>>
testVars  == <<inserted, query>>
vars      == <<cpc, cty, cval, cbuf, cres, schema, tables, creates, conn,
               pc, cur, delivered, pending, streamEnd, result, oplog, inflight,
               inserted, query>>

---------------------------------------------------------------------------
(* Bounds of the model.                                                    *)

\* Stream items the collaborator yields before it must end.
MaxStream == 3
\* Inserts per payload table in the read-back harness.
MaxInserts == 1
\* How many bytes past a codec's width a raw buffer may run.
MaxExtra == 1
\* create_table calls in the read-back harness.
MaxCreates == 2

---------------------------------------------------------------------------
(* Bytes and buffers.                                                      *)

\* Widths of the fixed-width storage forms.
AddressWidth == 20
U256Width == 32
U128Width == 16
U64Width == 8

Reverse(s) == [i \in 1..Len(s) |-> s[Len(s) + 1 - i]]

Fill(n, b) == [i \in 1..n |-> b]

\* The digit string with digit b at place p (1 = least significant) and 0 elsewhere.
Digit(n, p, b) == [i \in 1..n |-> IF i = p THEN b ELSE 0]

\* Digits 1, 2, ..., n: no two places alike.
Stair(n) == [i \in 1..n |-> i]

NoValue == <<>>

Ok(v) == [tag |-> "Ok", val |-> v]
Err == [tag |-> "Err", val |-> NoValue]
Panic == [tag |-> "Panic", val |-> NoValue]

---------------------------------------------------------------------------
(* The wide types' own conversions (ethers / std), as the codecs use them. *)

\* H160::as_bytes: the 20 bytes as they are held.
as_bytes(h) == h

\* H160::from_slice: asserts the slice is exactly 20 bytes long.
H160_from_slice(src) ==
    IF Len(src) = AddressWidth THEN Ok(src) ELSE Panic

\* U256::to_big_endian into a [0u8; 32]: most significant digit first.
U256_to_big_endian(v) == Reverse(v)

\* U256::from_big_endian: asserts at most 32 bytes, and reads a shorter slice as
\* the low digits of the value (the high digits are zero).
U256_from_big_endian(slice) ==
    IF Len(slice) > U256Width
    THEN Panic
    ELSE Ok([i \in 1..U256Width |->
                IF i <= Len(slice) THEN slice[Len(slice) + 1 - i] ELSE 0])

\* The sum of two values digit by digit, least significant first, with the
\* carry out of the top digit as one more digit.
RECURSIVE AddFrom(_, _, _, _)
AddFrom(a, b, i, c) ==
    IF i > Len(a)
    THEN <<c>>
    ELSE <<(a[i] + b[i] + c) % 256>> \o AddFrom(a, b, i + 1, (a[i] + b[i] + c) \div 256)

\* I256::is_negative: the top bit of the raw value.
I256_is_negative(v) == v[Len(v)] >= 128

\* I256::unsigned_abs: of a negative value, the complement of the raw digits
\* plus one, wrapping at the width.
I256_unsigned_abs(v) ==
    IF I256_is_negative(v)
    THEN SubSeq(AddFrom([i \in 1..Len(v) |-> 255 - v[i]], Digit(Len(v), 1, 1), 1, 0),
                1, Len(v))
    ELSE v

\* (Faulty variant: a negative value written as a sign bit and its magnitude.)
I256_to_big_endian_sign_magnitude(v) ==
    IF I256_is_negative(v)
    THEN Reverse([i \in 1..Len(v) |->
            IF i = Len(v) THEN 128 + (I256_unsigned_abs(v)[i] % 128)
                          ELSE I256_unsigned_abs(v)[i]])
    ELSE Reverse(v)
\* I256 is its two's-complement U256: from_raw and to_big_endian pass through.
I256_from_raw(u) == u
I256_to_big_endian(v) == U256_to_big_endian(v)

\* u128::to_be_bytes / u128::from_be_bytes on a [u8; 16].
u128_to_be_bytes(v) == Reverse(v)
u128_from_be_bytes(bytes) == Reverse(bytes)

\* u64::to_be_bytes of a block number.
RECURSIVE be_digits(_, _)
be_digits(n, w) ==
    IF w = 0 THEN <<>> ELSE Append(be_digits(n \div 256, w - 1), n % 256)
u64_to_be_bytes(n) == be_digits(n, U64Width)

---------------------------------------------------------------------------
(* The codecs: ToSql / FromSql of Address, WI256, WU256, Wu128.            *)

Address_to_sql(a) == as_bytes(a)

Address_from_sql(raw) ==
    LET h == H160_from_slice(raw)
    IN  IF h.tag = "Ok" THEN Ok(h.val) ELSE Panic

WI256_to_sql(v) == I256_to_big_endian(v)

WI256_from_sql(raw) ==
    LET u == U256_from_big_endian(raw)
    IN  IF u.tag = "Ok" THEN Ok(I256_from_raw(u.val)) ELSE Panic

\* (Faulty variant: the digits written least significant first.)
WU256_to_sql_little_endian(v) == v
WU256_to_sql(v) == U256_to_big_endian(v)

WU256_from_sql(raw) ==
    LET u == U256_from_big_endian(raw)
    IN  IF u.tag = "Ok" THEN Ok(u.val) ELSE Panic

Wu128_to_sql(v) == u128_to_be_bytes(v)

\* raw[..16] panics on a shorter slice and takes the first 16 bytes of a longer one.
Wu128_from_sql(raw) ==
    IF Len(raw) < U128Width
    THEN Panic
    ELSE Ok(u128_from_be_bytes(SubSeq(raw, 1, U128Width)))

CodecTypes == {"Address", "WI256", "WU256", "Wu128"}

Width(ty) ==
    CASE ty = "Address" -> AddressWidth
      [] ty = "WI256"   -> U256Width
      [] ty = "WU256"   -> U256Width
      [] ty = "Wu128"   -> U128Width

to_sql(ty, v) ==
    CASE ty = "Address" -> Address_to_sql(v)
      [] ty = "WI256"   -> WI256_to_sql(v)
      [] ty = "WU256"   -> WU256_to_sql(v)
      [] ty = "Wu128"   -> Wu128_to_sql(v)

from_sql(ty, raw) ==
    CASE ty = "Address" -> Address_from_sql(raw)
      [] ty = "WI256"   -> WI256_from_sql(raw)
      [] ty = "WU256"   -> WU256_from_sql(raw)
      [] ty = "Wu128"   -> Wu128_from_sql(raw)

---------------------------------------------------------------------------
(* The values and buffers the codec harness draws from.                    *)

EdgeBytes == {1, 127, 128, 255}

\* Zero, the maximum, the digits-all-different value, and every value with a
\* single non-zero digit; for the signed type these include the minimum
\* (Digit(32, 32, 128)), minus one (Fill(32, 255)) and other negative values.
WideValues(n) ==
    {Fill(n, 0), Fill(n, 255), Stair(n)}
        \cup {Digit(n, p, b) : p \in 1..n, b \in EdgeBytes}
        \cup {[i \in 1..n |-> IF i = n THEN 127 ELSE 255]}

Values(ty) == WideValues(Width(ty))

I256_MIN == Digit(U256Width, U256Width, 128)
U256_MAX == Fill(U256Width, 255)

\* Buffers as a BYTEA column may hand them over: any length up to past the width.
RawBuffers(ty) ==
    UNION {{Fill(n, 0), Fill(n, 255), Stair(n)} : n \in 0..(Width(ty) + MaxExtra)}

CodecInit ==
    /\ cpc = "idle"
    /\ cty = "Address"
    /\ cval = NoValue
    /\ cbuf = <<>>
    /\ cres = Ok(NoValue)

\* to_sql of a value of the type.
CodecEncode ==
    /\ cpc = "idle"
    /\ \E ty \in CodecTypes : \E v \in Values(ty) :
          /\ cty' = ty
          /\ cval' = v
          /\ cbuf' = to_sql(ty, v)
    /\ cpc' = "encoded"
    /\ UNCHANGED <<cres, storeVars, pipeVars, testVars>>

\* A buffer that did not come from to_sql.
CodecRaw ==
    /\ cpc = "idle"
    /\ \E ty \in CodecTypes : \E b \in RawBuffers(ty) :
          /\ cty' = ty
          /\ cbuf' = b
    /\ cval' = NoValue
    /\ cpc' = "raw"
    /\ UNCHANGED <<cres, storeVars, pipeVars, testVars>>

\* from_sql of the buffer.
CodecDecode ==
    /\ cpc \in {"encoded", "raw"}
    /\ cres' = from_sql(cty, cbuf)
    /\ cpc' = IF cpc = "encoded" THEN "decoded" ELSE "decodedRaw"
    /\ UNCHANGED <<cty, cval, cbuf, storeVars, pipeVars, testVars>>


---------------------------------------------------------------------------
(* The store: DB::create_table and the five inserts (database.rs).        *)
(* A row holds the columns the statements name; timestamp (DEFAULT NOW()) *)
(* is never read back and is left out.                                     *)

PayloadTables == {"swap_logs", "burn_logs", "mint_logs", "flash_logs"}
AllTables == {"ethereum_logs"} \cup PayloadTables

\* A nullable INT column: <<>> is NULL, <<n>> is n.
NULL == <<>>

EmptyTables == [t \in AllTables |-> <<>>]

\* (Faulty variant: an id that does not advance.)
serial_stuck(rows) == 1
\* id SERIAL PRIMARY KEY: the next value of the table's sequence.
serial(rows) == Len(rows) + 1

\* CREATE TABLE IF NOT EXISTS, five times: the tables that exist stay as they are.
create_table(sch) == sch \cup AllTables

\* (Faulty variant: every table dropped and created anew.)
create_table_rows_recreate(sch, tbls) == [t \in AllTables |-> <<>>]
\* The rows after create_table: a table that exists keeps its rows, a table
\* that is created starts empty.
create_table_rows(sch, tbls) ==
    [t \in AllTables |-> IF t \in sch THEN tbls[t] ELSE <<>>]

\* Whether a CREATE TABLE of the batch raises "relation already exists":
\* with IF NOT EXISTS none does.
create_table_error(sch) == FALSE

RowCount(tbls) ==
    Len(tbls["ethereum_logs"]) + Len(tbls["swap_logs"]) + Len(tbls["burn_logs"])
        + Len(tbls["mint_logs"]) + Len(tbls["flash_logs"])

\* A record of one create_table call: its outcome, and whether rows were
\* stored when it was made.
Created(ok, tbls) == [ok |-> ok, stored |-> RowCount(tbls) > 0]

\* (Faulty variant: a log whose transaction hash is already stored is skipped.)
insert_transaction_logs_dedup(tbls, meta) ==
    IF \E k \in 1..Len(tbls["ethereum_logs"]) :
          tbls["ethereum_logs"][k].transaction_hash = meta.transaction_hash
    THEN tbls
    ELSE [tbls EXCEPT !["ethereum_logs"] = Append(@,
            [id               |-> serial(@),
             transaction_hash |-> meta.transaction_hash,
             block_number     |-> u64_to_be_bytes(meta.block_number),
             address          |-> Address_to_sql(meta.address)])]
\* INSERT INTO ethereum_logs (transaction_hash, block_number, address).
insert_transaction_logs(tbls, meta) ==
    [tbls EXCEPT !["ethereum_logs"] = Append(@,
        [id               |-> serial(@),
         transaction_hash |-> meta.transaction_hash,
         block_number     |-> u64_to_be_bytes(meta.block_number),
         address          |-> Address_to_sql(meta.address)])]

\* The statement names no ethereum_log_id: the column takes its default, NULL.
insert_swap_event(tbls, events) ==
    [tbls EXCEPT !["swap_logs"] = Append(@,
        [id               |-> serial(@),
         ethereum_log_id  |-> NULL,
         sender_address   |-> Address_to_sql(events.sender),
         receiver_address |-> Address_to_sql(events.recipient),
         amount0          |-> WI256_to_sql(events.amount_0),
         amount1          |-> WI256_to_sql(events.amount_1),
         sqrt_price_x96   |-> WU256_to_sql(events.sqrt_price_x96),
         liquidity        |-> Wu128_to_sql(events.liquidity),
         tick             |-> events.tick])]

\* (Faulty variant: the row overwrites what the table held.)
insert_burn_event_overwrite(tbls, events) ==
    [tbls EXCEPT !["burn_logs"] =
        <<[id              |-> serial(@),
           ethereum_log_id |-> NULL,
           owner_address   |-> Address_to_sql(events.owner),
           tick_lower      |-> events.tick_lower,
           tick_upper      |-> events.tick_upper,
           amount          |-> Wu128_to_sql(events.amount),
           amount0         |-> WU256_to_sql(events.amount_0),
           amount1         |-> WU256_to_sql(events.amount_1)]>>]
insert_burn_event(tbls, events) ==
    [tbls EXCEPT !["burn_logs"] = Append(@,
        [id              |-> serial(@),
         ethereum_log_id |-> NULL,
         owner_address   |-> Address_to_sql(events.owner),
         tick_lower      |-> events.tick_lower,
         tick_upper      |-> events.tick_upper,
         amount          |-> Wu128_to_sql(events.amount),
         amount0         |-> WU256_to_sql(events.amount_0),
         amount1         |-> WU256_to_sql(events.amount_1)])]

\* (Faulty variant: amount1 bound from events.amount_0.)
insert_mint_event_amount0_twice(tbls, events) ==
    [tbls EXCEPT !["mint_logs"] = Append(@,
        [id              |-> serial(@),
         ethereum_log_id |-> NULL,
         sender_address  |-> Address_to_sql(events.sender),
         owner_address   |-> Address_to_sql(events.owner),
         tick_lower      |-> events.tick_lower,
         tick_upper      |-> events.tick_upper,
         amount          |-> Wu128_to_sql(events.amount),
         amount0         |-> WU256_to_sql(events.amount_0),
         amount1         |-> WU256_to_sql(events.amount_0)])]
insert_mint_event(tbls, events) ==
    [tbls EXCEPT !["mint_logs"] = Append(@,
        [id              |-> serial(@),
         ethereum_log_id |-> NULL,
         sender_address  |-> Address_to_sql(events.sender),
         owner_address   |-> Address_to_sql(events.owner),
         tick_lower      |-> events.tick_lower,
         tick_upper      |-> events.tick_upper,
         amount          |-> Wu128_to_sql(events.amount),
         amount0         |-> WU256_to_sql(events.amount_0),
         amount1         |-> WU256_to_sql(events.amount_1)])]

\* paid0 and paid1 are bound from events.amount_0 and events.amount_1.
insert_flash_event(tbls, events) ==
    [tbls EXCEPT !["flash_logs"] = Append(@,
        [id               |-> serial(@),
         ethereum_log_id  |-> NULL,
         sender_address   |-> Address_to_sql(events.sender),
         receiver_address |-> Address_to_sql(events.recipient),
         amount0          |-> WU256_to_sql(events.amount_0),
         amount1          |-> WU256_to_sql(events.amount_1),
         paid0            |-> WU256_to_sql(events.amount_0),
         paid1            |-> WU256_to_sql(events.amount_1)])]

---------------------------------------------------------------------------
(* From<Row> for the four event types (types/mod.rs): row.get decodes a   *)
(* column with from_sql and panics when from_sql does not return Ok.      *)

AllOk(rs) == \A r \in rs : r.tag = "Ok"

SwapFilter_from(row) ==
    LET s  == Address_from_sql(row.sender_address)
        r  == Address_from_sql(row.receiver_address)
        a0 == WI256_from_sql(row.amount0)
        a1 == WI256_from_sql(row.amount1)
        q  == WU256_from_sql(row.sqrt_price_x96)
        l  == Wu128_from_sql(row.liquidity)
    IN  IF AllOk({s, r, a0, a1, q, l})
        THEN Ok([sender |-> s.val, recipient |-> r.val, amount_0 |-> a0.val,
                 amount_1 |-> a1.val, sqrt_price_x96 |-> q.val,
                 liquidity |-> l.val, tick |-> row.tick])
        ELSE Panic

MintFilter_from(row) ==
    LET s  == Address_from_sql(row.sender_address)
        o  == Address_from_sql(row.owner_address)
        a  == Wu128_from_sql(row.amount)
        a0 == WU256_from_sql(row.amount0)
        a1 == WU256_from_sql(row.amount1)
    IN  IF AllOk({s, o, a, a0, a1})
        THEN Ok([sender |-> s.val, owner |-> o.val,
                 tick_lower |-> row.tick_lower, tick_upper |-> row.tick_upper,
                 amount |-> a.val, amount_0 |-> a0.val, amount_1 |-> a1.val])
        ELSE Panic

BurnFilter_from(row) ==
    LET o  == Address_from_sql(row.owner_address)
        a  == Wu128_from_sql(row.amount)
        a0 == WU256_from_sql(row.amount0)
        a1 == WU256_from_sql(row.amount1)
    IN  IF AllOk({o, a, a0, a1})
        THEN Ok([owner |-> o.val,
                 tick_lower |-> row.tick_lower, tick_upper |-> row.tick_upper,
                 amount |-> a.val, amount_0 |-> a0.val, amount_1 |-> a1.val])
        ELSE Panic

FlashFilter_from(row) ==
    LET s  == Address_from_sql(row.sender_address)
        r  == Address_from_sql(row.receiver_address)
        a0 == WU256_from_sql(row.amount0)
        a1 == WU256_from_sql(row.amount1)
        p0 == WU256_from_sql(row.paid0)
        p1 == WU256_from_sql(row.paid1)
    IN  IF AllOk({s, r, a0, a1, p0, p1})
        THEN Ok([sender |-> s.val, recipient |-> r.val,
                 amount_0 |-> a0.val, amount_1 |-> a1.val,
                 paid_0 |-> p0.val, paid_1 |-> p1.val])
        ELSE Panic

from_row(t, row) ==
    CASE t = "swap_logs"  -> SwapFilter_from(row)
      [] t = "burn_logs"  -> BurnFilter_from(row)
      [] t = "mint_logs"  -> MintFilter_from(row)
      [] t = "flash_logs" -> FlashFilter_from(row)

insert_event(t, tbls, events) ==
    CASE t = "swap_logs"  -> insert_swap_event(tbls, events)
      [] t = "burn_logs"  -> insert_burn_event(tbls, events)
      [] t = "mint_logs"  -> insert_mint_event(tbls, events)
      [] t = "flash_logs" -> insert_flash_event(tbls, events)


---------------------------------------------------------------------------
(* The events the harnesses draw from.                                     *)

ZeroAddress == Fill(AddressWidth, 0)

\* 0x88e6A0c2dDD26FEEb64F039a2c41296FcB3f5640, the pool (decode.rs, initialise).
PoolAddress ==
    <<136, 230, 160, 194, 221, 210, 111, 238, 182, 79,
      3, 154, 44, 65, 41, 111, 203, 63, 86, 64>>

\* The test's Swap event, one whose fields all differ (amount_0 the signed
\* minimum, amount_1 minus one, a negative tick), and one of positive extremes.
SwapEvents ==
    { [sender |-> ZeroAddress, recipient |-> ZeroAddress,
       amount_0 |-> Fill(U256Width, 0), amount_1 |-> Fill(U256Width, 0),
       sqrt_price_x96 |-> Fill(U256Width, 0), liquidity |-> Fill(U128Width, 0),
       tick |-> 0],
      [sender |-> Stair(AddressWidth), recipient |-> PoolAddress,
       amount_0 |-> I256_MIN, amount_1 |-> Fill(U256Width, 255),
       sqrt_price_x96 |-> Stair(U256Width), liquidity |-> Stair(U128Width),
       tick |-> -887272],
      [sender |-> PoolAddress, recipient |-> Fill(AddressWidth, 255),
       amount_0 |-> Digit(U256Width, 1, 1),
       amount_1 |-> [i \in 1..U256Width |-> IF i = U256Width THEN 127 ELSE 255],
       sqrt_price_x96 |-> U256_MAX, liquidity |-> Fill(U128Width, 255),
       tick |-> 887272] }

\* The test's Mint event (amount0 = amount1 = U256::MAX) and two of distinct fields;
\* the test's Burn event and one of distinct fields.
MintEvents ==
    { [sender |-> ZeroAddress, owner |-> ZeroAddress,
       tick_lower |-> 0, tick_upper |-> 0, amount |-> Fill(U128Width, 0),
       amount_0 |-> U256_MAX, amount_1 |-> U256_MAX],
      [sender |-> Stair(AddressWidth), owner |-> PoolAddress,
       tick_lower |-> -887272, tick_upper |-> 887272,
       amount |-> Stair(U128Width),
       amount_0 |-> Stair(U256Width), amount_1 |-> Digit(U256Width, U256Width, 128)],
      [sender |-> PoolAddress, owner |-> Fill(AddressWidth, 255),
       tick_lower |-> -60, tick_upper |-> 60,
       amount |-> Fill(U128Width, 255),
       amount_0 |-> Digit(U256Width, 1, 1), amount_1 |-> Fill(U256Width, 0)] }

BurnEvents ==
    { [owner |-> ZeroAddress,
       tick_lower |-> 0, tick_upper |-> 0, amount |-> Fill(U128Width, 0),
       amount_0 |-> U256_MAX, amount_1 |-> U256_MAX],
      [owner |-> PoolAddress,
       tick_lower |-> -887272, tick_upper |-> 887272,
       amount |-> Stair(U128Width),
       amount_0 |-> Stair(U256Width), amount_1 |-> Digit(U256Width, U256Width, 128)] }

\* The test's Flash event (all four amounts U256::MAX) and one whose paid
\* amounts differ from the amounts lent.
FlashEvents ==
    { [sender |-> ZeroAddress, recipient |-> ZeroAddress,
       amount_0 |-> U256_MAX, amount_1 |-> U256_MAX,
       paid_0 |-> U256_MAX, paid_1 |-> U256_MAX],
      [sender |-> Stair(AddressWidth), recipient |-> PoolAddress,
       amount_0 |-> Stair(U256Width), amount_1 |-> Digit(U256Width, 2, 1),
       paid_0 |-> Digit(U256Width, 1, 255), paid_1 |-> Digit(U256Width, 1, 1)] }

Events(t) ==
    CASE t = "swap_logs"  -> SwapEvents
      [] t = "burn_logs"  -> BurnEvents
      [] t = "mint_logs"  -> MintEvents
      [] t = "flash_logs" -> FlashEvents

TestMintEvent ==
    [sender |-> ZeroAddress, owner |-> ZeroAddress,
     tick_lower |-> 0, tick_upper |-> 0, amount |-> Fill(U128Width, 0),
     amount_0 |-> U256_MAX, amount_1 |-> U256_MAX]

---------------------------------------------------------------------------
(* The read-back harness: tests/integration_test.rs, insert_events.        *)
(* create_table, then the inserts, then SELECT * through From<Row>.        *)

NoQuery == [done |-> FALSE, events |-> [t \in PayloadTables |-> <<>>]]
NoItem == [tag |-> "None", event |-> NoValue, meta |-> NoValue]

PipeIdle ==
    /\ pc = "Off"
    /\ cur = NoItem
    /\ delivered = <<>>
    /\ pending = 0
    /\ streamEnd = "Open"
    /\ result = "Running"
    /\ oplog = <<>>
    /\ inflight = {}

TestIdle ==
    /\ inserted = [t \in PayloadTables |-> <<>>]
    /\ query = NoQuery

StoreEmpty ==
    /\ tables = EmptyTables
    /\ creates = <<>>

TestInit ==
    /\ CodecInit
    /\ PipeIdle
    /\ TestIdle
    /\ StoreEmpty
    /\ schema = {}
    /\ conn = "alive"

\* let table = db.create_table().await; assert!(table.is_ok());
TestCreateTable ==
    /\ creates = <<>>
    /\ LET ok == ~create_table_error(schema)
       IN  /\ schema' = IF ok THEN create_table(schema) ELSE schema
           /\ tables' = IF ok THEN create_table_rows(schema, tables) ELSE tables
           /\ creates' = Append(creates, Created(ok, tables))
    /\ UNCHANGED <<conn, inserted, query, codecVars, pipeVars>>

\* A further db.create_table().await on the store the first call set up.
CreateTableAgain ==
    /\ creates # <<>>
    /\ Len(creates) < MaxCreates
    /\ \A k \in 1..Len(creates) : creates[k].ok
    /\ LET ok == ~create_table_error(schema)
       IN  /\ schema' = IF ok THEN create_table(schema) ELSE schema
           /\ tables' = IF ok THEN create_table_rows(schema, tables) ELSE tables
           /\ creates' = Append(creates, Created(ok, tables))
    /\ UNCHANGED <<conn, inserted, query, codecVars, pipeVars>>

TestInsert(t) ==
    /\ t \in schema
    /\ ~query.done
    /\ Len(tables[t]) < MaxInserts
    /\ \E e \in Events(t) :
          /\ tables' = insert_event(t, tables, e)
          /\ inserted' = [inserted EXCEPT ![t] = Append(@, e)]
    /\ UNCHANGED <<schema, creates, conn, query, codecVars, pipeVars>>

TestInsertSwap == TestInsert("swap_logs")
TestInsertMint == TestInsert("mint_logs")
TestInsertBurn == TestInsert("burn_logs")
TestInsertFlash == TestInsert("flash_logs")

\* db.client.query("SELECT * FROM <t>", &[]) mapped through <T>::from(row).
select_from(t, tbls) == [k \in 1..Len(tbls[t]) |-> from_row(t, tbls[t][k])]

\* The four queries, one after the other, once the inserts are done.
TestQuery ==
    /\ PayloadTables \subseteq schema
    /\ ~query.done
    /\ query' = [done |-> TRUE,
                 events |-> [t \in PayloadTables |-> select_from(t, tables)]]
    /\ UNCHANGED <<schema, tables, creates, conn, inserted, codecVars, pipeVars>>

TestNext ==
    \/ TestCreateTable
    \/ TestInsertSwap
    \/ TestInsertMint
    \/ TestInsertBurn
    \/ TestInsertFlash
    \/ TestQuery

SpecStore == TestInit /\ [][TestNext]_vars

\* create_table called again between the inserts.
SchemaNext ==
    \/ TestCreateTable
    \/ CreateTableAgain
    \/ TestInsertSwap
    \/ TestInsertMint
    \/ TestInsertBurn
    \/ TestInsertFlash

SpecSchema == TestInit /\ [][SchemaNext]_vars

---------------------------------------------------------------------------
(* The codec harness as a specification.                                   *)

CodecHarnessInit ==
    /\ CodecInit
    /\ PipeIdle
    /\ TestIdle
    /\ StoreEmpty
    /\ schema = {}
    /\ conn = "none"

CodecNext ==
    \/ CodecEncode
    \/ CodecRaw
    \/ CodecDecode

SpecCodec == CodecHarnessInit /\ [][CodecNext]_vars


---------------------------------------------------------------------------
(* The pipeline: initialise and decode_events (decode.rs).                 *)

Tags == {"Swap", "Burn", "Mint", "Flash", "Other"}
ModeledTags == Tags \ {"Other"}

\* Two logs of the pool, in different transactions and blocks.
Metas ==
    { [transaction_hash |-> Stair(U256Width), block_number |-> 18000000,
       address |-> PoolAddress],
      [transaction_hash |-> Fill(U256Width, 171), block_number |-> 18000001,
       address |-> PoolAddress] }

\* The decoded event an item of each variant carries; one per variant keeps
\* the pipeline's state space to the dispatch, which reads the tag alone.
EventOf(tag) ==
    CASE tag = "Swap"  -> CHOOSE e \in SwapEvents : e.tick < 0
      [] tag = "Burn"  -> CHOOSE e \in BurnEvents : e.tick_lower < -60
      [] tag = "Mint"  -> CHOOSE e \in MintEvents : e.tick_lower < -60
      [] tag = "Flash" -> CHOOSE e \in FlashEvents : e.sender = Stair(AddressWidth)
      [] tag = "Other" -> NoValue

\* What stream.next() may yield as Some(Ok((event, meta))).
Items == {[tag |-> tag, event |-> EventOf(tag), meta |-> m] : tag \in Tags, m \in Metas}

TableOf(tag) ==
    CASE tag = "Swap"  -> "swap_logs"
      [] tag = "Burn"  -> "burn_logs"
      [] tag = "Mint"  -> "mint_logs"
      [] tag = "Flash" -> "flash_logs"

\* The table an operation of the store writes.
OpTable(op) ==
    CASE op = "insert_transaction_logs" -> "ethereum_logs"
      [] op = "insert_swap_event"  -> "swap_logs"
      [] op = "insert_burn_event"  -> "burn_logs"
      [] op = "insert_mint_event"  -> "mint_logs"
      [] op = "insert_flash_event" -> "flash_logs"
      [] OTHER                     -> ""

PayloadOps ==
    {"insert_swap_event", "insert_burn_event", "insert_mint_event", "insert_flash_event"}

\* (Faulty variant: the Burn and Mint arms exchanged.)
match_event_crossed(tag) ==
    CASE tag = "Swap"  -> "insert_swap_event"
      [] tag = "Burn"  -> "insert_mint_event"
      [] tag = "Mint"  -> "insert_burn_event"
      [] tag = "Flash" -> "insert_flash_event"
      [] OTHER         -> "none"
\* The match of decode_events: the insert each variant is routed to ("none": the
\* wildcard arm, which does nothing).
match_event(tag) ==
    CASE tag = "Swap"  -> "insert_swap_event"
      [] tag = "Burn"  -> "insert_burn_event"
      [] tag = "Mint"  -> "insert_mint_event"
      [] tag = "Flash" -> "insert_flash_event"
      [] OTHER         -> "none"

\* The store operation by name.
apply_insert(op, tbls, events) ==
    CASE op = "insert_swap_event"  -> insert_swap_event(tbls, events)
      [] op = "insert_burn_event"  -> insert_burn_event(tbls, events)
      [] op = "insert_mint_event"  -> insert_mint_event(tbls, events)
      [] op = "insert_flash_event" -> insert_flash_event(tbls, events)

\* (Faulty variant: the error is dropped and the driver goes on.)
try_swallow(ok, next) == next
\* `?` on an awaited Result: go on when Ok, return the error when Err.
try(ok, next) == IF ok THEN next ELSE "Failed"

\* (Faulty variant: leaving the loop returns an error.)
while_let_end_is_error(yield) == IF yield = "SomeOk" THEN "PersistEnvelope" ELSE "Failed"
\* while let Some(Ok((event, meta))) = stream.next().await: the body runs on a
\* decoded pair; anything else, an Err item or the end, leaves the loop, and
\* decode_events returns Ok(()).
while_let(yield) == IF yield = "SomeOk" THEN "PersistEnvelope" ELSE "Stopped"

\* What initialise has returned at a position of the driver.
ResultAt(p) ==
    CASE p = "Stopped" -> "Ok"
      [] p = "Failed"  -> "Err"
      [] OTHER         -> "Running"

\* A storage operation is issued by the call and is in flight until its
\* .await returns.
issue(fl, name, item) == fl \cup {[op |-> name, item |-> item]}
complete(fl, name, item) == fl \ {[op |-> name, item |-> item]}

\* (Faulty variant: the next item is requested while the payload insert runs.)
polls_stream_early(p) == p \in {"Listening", "PersistPayload"}
\* stream.next() is called at the head of the loop only.
polls_stream(p) == p = "Listening"

\* The Results a storage operation can return: on a connection that has
\* failed every request returns Err.
Outcomes(c) == IF c = "dead" THEN {FALSE} ELSE BOOLEAN

\* A record of one awaited fallible operation: the stream item it was issued
\* for (0 at startup), whether it succeeded, and the id of the row it wrote.
Op(name, item, ok, id) == [op |-> name, item |-> item, ok |-> ok, id |-> id]

WrittenId(op, ok, tbls) ==
    IF ok THEN <<tbls[OpTable(op)][Len(tbls[OpTable(op)])].id>> ELSE <<>>

Init ==
    /\ CodecInit
    /\ TestIdle
    /\ StoreEmpty
    /\ schema \in {{}, AllTables}
    /\ conn = "none"
    /\ pc = "Connect"
    /\ cur = NoItem
    /\ delivered = <<>>
    /\ pending \in 0..MaxStream
    /\ streamEnd = "Open"
    /\ result = "Running"
    /\ oplog = <<>>
    /\ inflight = issue({}, "connect", 0)

\* let db = DB::new().await?;
Connect ==
    /\ pc = "Connect"
    /\ \E ok \in BOOLEAN :
          /\ pc' = try(ok, "CreateTable")
          /\ oplog' = Append(oplog, Op("connect", 0, ok, <<>>))
          /\ inflight' = IF ok THEN issue(complete(inflight, "connect", 0), "create_table", 0)
                               ELSE complete(inflight, "connect", 0)
          /\ conn' = IF ok THEN "alive" ELSE "none"
    /\ result' = ResultAt(pc')
    /\ UNCHANGED <<cur, delivered, pending, streamEnd, schema, tables, creates,
                   codecVars, testVars>>

\* db.create_table().await?;
CreateTable ==
    /\ pc = "CreateTable"
    /\ \E ok \in Outcomes(conn) :
          /\ ok => ~create_table_error(schema)
          /\ schema' = IF ok THEN create_table(schema) ELSE schema
          /\ tables' = IF ok THEN create_table_rows(schema, tables) ELSE tables
          /\ creates' = Append(creates, Created(ok, tables))
          /\ pc' = try(ok, "Subscribe")
          /\ oplog' = Append(oplog, Op("create_table", 0, ok, <<>>))
          /\ inflight' = complete(inflight, "create_table", 0)
    /\ result' = ResultAt(pc')
    /\ UNCHANGED <<cur, delivered, pending, streamEnd, conn, codecVars, testVars>>

\* let mut stream = events.stream().await?.with_meta();
Subscribe ==
    /\ pc = "Subscribe"
    /\ \E ok \in BOOLEAN :
          /\ pc' = try(ok, "Listening")
          /\ oplog' = Append(oplog, Op("subscribe", 0, ok, <<>>))
    /\ result' = ResultAt(pc')
    /\ UNCHANGED <<cur, delivered, pending, streamEnd, inflight, storeVars, codecVars, testVars>>

\* stream.next().await yields a decoded pair; the loop body issues the
\* envelope insert.
StreamItem ==
    /\ polls_stream(pc)
    /\ pending > 0
    /\ \E item \in Items :
          /\ cur' = item
          /\ delivered' = Append(delivered, item)
    /\ pending' = pending - 1
    /\ inflight' = issue(inflight, "insert_transaction_logs", Len(delivered'))
    /\ pc' = while_let("SomeOk")
    /\ result' = ResultAt(pc')
    /\ UNCHANGED <<streamEnd, oplog, storeVars, codecVars, testVars>>

\* stream.next().await yields Some(Err(e)): a transport error.
StreamError ==
    /\ polls_stream(pc)
    /\ streamEnd' = "Err"
    /\ pc' = while_let("SomeErr")
    /\ result' = ResultAt(pc')
    /\ UNCHANGED <<cur, delivered, pending, oplog, inflight, storeVars, codecVars, testVars>>

\* stream.next().await yields None: the end of the sequence.
StreamEnd ==
    /\ polls_stream(pc)
    /\ pending = 0
    /\ streamEnd' = "None"
    /\ pc' = while_let("None")
    /\ result' = ResultAt(pc')
    /\ UNCHANGED <<cur, delivered, pending, oplog, inflight, storeVars, codecVars, testVars>>

\* db.insert_transaction_logs(meta).await?;
InsertTransactionLogs ==
    /\ pc = "PersistEnvelope"
    /\ \E ok \in Outcomes(conn) :
          /\ ok => "ethereum_logs" \in schema
          /\ tables' = IF ok THEN insert_transaction_logs(tables, cur.meta) ELSE tables
          /\ pc' = try(ok, "PersistPayload")
          /\ oplog' = Append(oplog,
                Op("insert_transaction_logs", Len(delivered), ok,
                   WrittenId("insert_transaction_logs", ok, tables')))
          /\ inflight' =
                IF ok /\ match_event(cur.tag) # "none"
                THEN issue(complete(inflight, "insert_transaction_logs", Len(delivered)),
                           match_event(cur.tag), Len(delivered))
                ELSE complete(inflight, "insert_transaction_logs", Len(delivered))
    /\ result' = ResultAt(pc')
    /\ UNCHANGED <<cur, delivered, pending, streamEnd, schema, creates, conn, codecVars, testVars>>

\* match event { ...Filter(f) => db.insert_..._event(f).await?, ... }
InsertPayload ==
    /\ pc = "PersistPayload"
    /\ match_event(cur.tag) # "none"
    /\ \E ok \in Outcomes(conn) :
          /\ ok => OpTable(match_event(cur.tag)) \in schema
          /\ tables' = IF ok THEN apply_insert(match_event(cur.tag), tables, cur.event)
                             ELSE tables
          /\ pc' = try(ok, "Listening")
          /\ oplog' = Append(oplog,
                Op(match_event(cur.tag), Len(delivered), ok,
                   WrittenId(match_event(cur.tag), ok, tables')))
          /\ inflight' = complete(inflight, match_event(cur.tag), Len(delivered))
    /\ result' = ResultAt(pc')
    /\ UNCHANGED <<cur, delivered, pending, streamEnd, schema, creates, conn, codecVars, testVars>>

\* match event { ..., _ => {} }
DropOther ==
    /\ pc = "PersistPayload"
    /\ match_event(cur.tag) = "none"
    /\ pc' = "Listening"
    /\ UNCHANGED <<cur, delivered, pending, streamEnd, result, oplog, inflight,
                   storeVars, codecVars, testVars>>

\* (Faulty variant: the connection error ends the driver.)
on_connection_error_fatal(p) == "Failed"
\* if let Err(e) = connection.await { error!(..) }: the task logs, and nothing
\* is handed to the driver, which stays where it is.
on_connection_error(p) == p

\* The spawned task sees the connection fail while initialise is running.
ConnectionError ==
    /\ conn = "alive"
    /\ result = "Running"
    /\ conn' = "dead"
    /\ pc' = on_connection_error(pc)
    /\ result' = ResultAt(pc')
    /\ UNCHANGED <<cur, delivered, pending, streamEnd, oplog, inflight,
                   schema, tables, creates, codecVars, testVars>>

Next ==
    \/ Connect
    \/ CreateTable
    \/ Subscribe
    \/ StreamItem
    \/ StreamError
    \/ StreamEnd
    \/ InsertTransactionLogs
    \/ InsertPayload
    \/ DropOther
    \/ ConnectionError

Spec == Init /\ [][Next]_vars


---------------------------------------------------------------------------
(* Properties of the pipeline (checked under Spec).                        *)

\* The operations awaited for stream item i, in order.
OpsOf(i) == SelectSeq(oplog, LAMBDA e : e.item = i)

\* How many delivered items carry the tag.
CountTag(tag) == Len(SelectSeq(delivered, LAMBDA it : it.tag = tag))

\* Item i has been fully handled: the loop is past its match.
Handled(i) == i < Len(delivered) \/ pc \in {"Listening", "Stopped"}

\* The insert the dispatch contract names for each modeled variant.
ContractInsert(tag) ==
    CASE tag = "Swap"  -> "insert_swap_event"
      [] tag = "Mint"  -> "insert_mint_event"
      [] tag = "Burn"  -> "insert_burn_event"
      [] tag = "Flash" -> "insert_flash_event"

\* C1: for every stream item, the envelope insert comes first and is followed
\* by exactly one payload insert, the one of the item's own variant; an item of
\* an unmodeled variant gets no payload insert, raises no error, and the loop
\* goes on to the next item.
C1_Dispatch ==
    \A i \in 1..Len(delivered) :
        LET ops == OpsOf(i)
            tag == delivered[i].tag
        IN  /\ Len(ops) <= 2
            /\ Len(ops) >= 1 => ops[1].op = "insert_transaction_logs"
            /\ Len(ops) = 2 =>
                  /\ ops[1].ok
                  /\ tag \in ModeledTags
                  /\ ops[2].op = ContractInsert(tag)
            /\ Handled(i) =>
                  /\ \A k \in 1..Len(ops) : ops[k].ok
                  /\ Len(ops) = IF tag = "Other" THEN 1 ELSE 2
            /\ (tag = "Other" /\ i = Len(delivered) /\ Len(ops) = 1 /\ ops[1].ok) =>
                  pc \in {"PersistPayload", "Listening", "Stopped"}

C1_Witness ==
    /\ Len(delivered) = 3
    /\ delivered[1].tag = "Burn"
    /\ delivered[2].tag = "Other"
    /\ delivered[3].tag = "Flash"
    /\ pc = "Listening"
    /\ Len(tables["burn_logs"]) = 1
    /\ Len(tables["flash_logs"]) = 1

\* C2: when a stream of N pairs has ended and the pipeline, started on empty
\* tables, has stopped, the envelope table holds N rows and each payload table holds one row per
\* delivered item of its variant; unmodeled items add no payload row.
C2_RowCounts ==
    (pc = "Stopped" /\ streamEnd = "None") =>
        /\ Len(tables["ethereum_logs"]) = Len(delivered)
        /\ \A tag \in ModeledTags : Len(tables[TableOf(tag)]) = CountTag(tag)
        /\ Len(tables["swap_logs"]) + Len(tables["burn_logs"])
              + Len(tables["mint_logs"]) + Len(tables["flash_logs"])
           = Len(delivered) - CountTag("Other")

C2_Witness ==
    /\ pc = "Stopped"
    /\ streamEnd = "None"
    /\ Len(delivered) = 3
    /\ CountTag("Swap") = 2
    /\ CountTag("Other") = 1
    /\ delivered[1] = delivered[3]
    /\ Len(tables["swap_logs"]) = 2

\* C3: every payload row's ethereum_log_id is set and is the id of the
\* envelope row inserted for the same stream item.
C3_ReferentialLink ==
    \A t \in PayloadTables : \A k \in 1..Len(tables[t]) :
        LET r == tables[t][k]
        IN  /\ r.ethereum_log_id # NULL
            /\ \E j \in 1..Len(tables["ethereum_logs"]) :
                  <<tables["ethereum_logs"][j].id>> = r.ethereum_log_id
            /\ \E a \in DOMAIN oplog : \E b \in DOMAIN oplog :
                  /\ oplog[a].op = "insert_transaction_logs"
                  /\ oplog[a].id = r.ethereum_log_id
                  /\ OpTable(oplog[b].op) = t
                  /\ oplog[b].id = <<r.id>>
                  /\ oplog[a].item = oplog[b].item

\* C4: whenever the pipeline is not in the middle of persisting an item, every
\* envelope row written for a modeled item has that item's payload row.
C4_Atomicity ==
    pc \in {"Listening", "Stopped", "Failed"} =>
        \A a \in DOMAIN oplog :
            (/\ oplog[a].op = "insert_transaction_logs"
             /\ oplog[a].ok
             /\ delivered[oplog[a].item].tag \in ModeledTags)
            => \E b \in DOMAIN oplog :
                  /\ oplog[b].item = oplog[a].item
                  /\ oplog[b].op \in PayloadOps
                  /\ oplog[b].ok
                  /\ \E k \in 1..Len(tables[OpTable(oplog[b].op)]) :
                        <<tables[OpTable(oplog[b].op)][k].id>> = oplog[b].id

InsertOps == {"insert_transaction_logs"} \cup PayloadOps

\* C5: a failed envelope or payload insert is the last operation ever issued:
\* the pipeline is Failed with an error result, nothing was read from the
\* stream after the item it failed on, and no operation follows it.
C5_NoRetry ==
    \A k \in DOMAIN oplog :
        (oplog[k].op \in InsertOps /\ ~oplog[k].ok) =>
            /\ k = Len(oplog)
            /\ pc = "Failed"
            /\ result = "Err"
            /\ Len(delivered) = oplog[k].item
            /\ streamEnd = "Open"
            /\ \A j \in 1..(k - 1) : oplog[j].ok

C5_Witness ==
    /\ pc = "Failed"
    /\ Len(delivered) = 2
    /\ Len(oplog) = 7
    /\ oplog[7].op = "insert_mint_event"
    /\ ~oplog[7].ok
    /\ Len(tables["ethereum_logs"]) = 2

\* C6: a transport error from the stream ends the pipeline in Failed with an
\* error result; only the end of the sequence ends it in Stopped.
C6_TransportErrorFatal ==
    /\ streamEnd = "Err" => (pc = "Failed" /\ result = "Err")
    /\ pc = "Stopped" => streamEnd = "None"

\* C7: inserts are issued in stream order, one item after the other, and in
\* every table the rows taken by generated id follow the stream order of the
\* items they were written for.
C7_Ordering ==
    /\ \A j \in DOMAIN oplog : \A k \in DOMAIN oplog :
          j < k => oplog[j].item <= oplog[k].item
    /\ \A t \in AllTables :
          /\ \A j \in 1..Len(tables[t]) : \A k \in 1..Len(tables[t]) :
                j < k => tables[t][j].id < tables[t][k].id
          /\ \A k \in 1..Len(tables[t]) : \E a \in DOMAIN oplog :
                /\ OpTable(oplog[a].op) = t
                /\ oplog[a].ok
                /\ oplog[a].id = <<tables[t][k].id>>
    /\ \A a \in DOMAIN oplog : \A b \in DOMAIN oplog :
          (/\ oplog[a].ok /\ oplog[b].ok
           /\ OpTable(oplog[a].op) \in AllTables
           /\ OpTable(oplog[a].op) = OpTable(oplog[b].op)
           /\ oplog[a].id[1] < oplog[b].id[1])
          => oplog[a].item < oplog[b].item
    /\ \A k \in 1..Len(tables["ethereum_logs"]) :
          /\ k <= Len(delivered)
          /\ tables["ethereum_logs"][k].transaction_hash
                = delivered[k].meta.transaction_hash

C7_Witness ==
    /\ Len(delivered) = 3
    /\ pc = "Listening"
    /\ delivered[1].tag = "Swap"
    /\ delivered[2].tag = "Mint"
    /\ delivered[3].tag = "Swap"
    /\ delivered[1].meta # delivered[3].meta
    /\ Len(tables["swap_logs"]) = 2
    /\ Len(tables["ethereum_logs"]) = 3

---------------------------------------------------------------------------
(* Properties of the codecs (checked under SpecCodec).                     *)

\* C8: decoding what to_sql wrote gives back the value, for each of the four
\* wide types and every value drawn (zero, the maximum, the signed minimum and
\* other negative values among them).
C8_RoundTrip ==
    cpc = "decoded" => cres = Ok(cval)

C8_Witness ==
    /\ cpc = "decoded"
    /\ cty = "WI256"
    /\ cval = I256_MIN
    /\ cres.val[U256Width] >= 128

\* C9: from_sql on a buffer shorter than the type's width returns a length
\* error (no panic, no value built from the short buffer).
C9_ShortBufferIsError ==
    (cpc = "decodedRaw" /\ Len(cbuf) < Width(cty)) => cres = Err

---------------------------------------------------------------------------
(* Properties of the read-back harness (checked under SpecStore).          *)

\* C10: what is read back from swap_logs, mint_logs or burn_logs through
\* From<Row> is, row for row, the events that were inserted, each equal to its
\* input field for field.
C10_ReadBack ==
    query.done =>
        \A t \in {"swap_logs", "mint_logs", "burn_logs"} :
            /\ Len(query.events[t]) = Len(inserted[t])
            /\ \A k \in 1..Len(inserted[t]) :
                  query.events[t][k] = Ok(inserted[t][k])

C10_Witness ==
    /\ query.done
    /\ query.events["mint_logs"] = <<Ok(TestMintEvent)>>
    /\ inserted["mint_logs"] = <<TestMintEvent>>
    /\ Len(query.events["swap_logs"]) = 1
    /\ query.events["swap_logs"][1].val.tick < 0
    /\ Len(query.events["burn_logs"]) = 1


\* C11: what is read back from flash_logs through From<Row> is, row for row,
\* the Flash events that were inserted: sender, recipient, amount_0, amount_1,
\* paid_0 and paid_1 each equal to the input's.
C11_FlashReadBack ==
    query.done =>
        /\ Len(query.events["flash_logs"]) = Len(inserted["flash_logs"])
        /\ \A k \in 1..Len(inserted["flash_logs"]) :
              query.events["flash_logs"][k] = Ok(inserted["flash_logs"][k])


\* C12: a create_table call succeeds whether or not the tables exist, leaves
\* all five tables in place and every stored row as it was; a second call
\* leaves the schema of the first.
C12_Idempotent ==
    [][Len(creates') > Len(creates) =>
          /\ creates'[Len(creates')].ok
          /\ schema' = AllTables
          /\ schema = AllTables => schema' = schema
          /\ tables' = tables]_vars

C12_Witness ==
    /\ Len(creates) = 2
    /\ creates[1].ok
    /\ creates[2].ok
    /\ creates[2].stored
    /\ schema = AllTables
    /\ Len(tables["swap_logs"]) = 1
    /\ Len(tables["flash_logs"]) = 1


---------------------------------------------------------------------------
(* The cascade of the schema: a DELETE of an envelope row, issued against  *)
(* the store once the pipeline has returned.                               *)

HasId(rows, id) == \E k \in 1..Len(rows) : rows[k].id = id

\* ethereum_log_id INT REFERENCES ethereum_logs(id) ON DELETE CASCADE: deleting
\* the envelope row deletes the payload rows whose ethereum_log_id is its id.
delete_cascade(tbls, id) ==
    [t \in AllTables |->
        IF t = "ethereum_logs"
        THEN SelectSeq(tbls[t], LAMBDA r : r.id # id)
        ELSE SelectSeq(tbls[t], LAMBDA r : r.ethereum_log_id # <<id>>)]

\* DELETE FROM ethereum_logs WHERE id = $1
DeleteEnvelope ==
    /\ pc \in {"Stopped", "Failed"}
    /\ \E k \in 1..Len(tables["ethereum_logs"]) :
          tables' = delete_cascade(tables, tables["ethereum_logs"][k].id)
    /\ UNCHANGED <<schema, creates, conn, pipeVars, codecVars, testVars>>

CascadeNext ==
    \/ Connect
    \/ CreateTable
    \/ Subscribe
    \/ StreamItem
    \/ StreamError
    \/ StreamEnd
    \/ InsertTransactionLogs
    \/ InsertPayload
    \/ DropOther
    \/ ConnectionError
    \/ DeleteEnvelope

SpecCascade == Init /\ [][CascadeNext]_vars

\* C13: when the envelope row written for a stream item is deleted, the
\* payload row written for the same item is gone with it.
C13_Cascade ==
    [][\A a, b \in 1..Len(oplog) :
          ( /\ oplog[a].item = oplog[b].item
            /\ oplog[a].op = "insert_transaction_logs" /\ oplog[a].ok
            /\ oplog[b].op \in PayloadOps /\ oplog[b].ok
            /\ HasId(tables["ethereum_logs"], oplog[a].id[1])
            /\ ~HasId(tables'["ethereum_logs"], oplog[a].id[1]) )
          => ~HasId(tables'[OpTable(oplog[b].op)], oplog[b].id[1])]_vars


---------------------------------------------------------------------------
(* Termination: every awaited operation eventually completes and the       *)
(* stream eventually yields its next item or its end.                      *)

SpecLive == Init /\ [][Next]_vars /\ WF_vars(Next)

AllOpsOk == \A k \in 1..Len(oplog) : oplog[k].ok

\* C14: on a stream that ends, with no operation failing and no transport
\* error, the driver eventually stops with every item of the stream consumed
\* and initialise returning Ok.
C14_Liveness ==
    [](AllOpsOk /\ streamEnd # "Err")
        => <>(pc = "Stopped" /\ result = "Ok" /\ pending = 0 /\ streamEnd = "None")

C14_Witness ==
    /\ pc = "Stopped"
    /\ result = "Ok"
    /\ AllOpsOk
    /\ streamEnd = "None"
    /\ pending = 0
    /\ Len(delivered) = 2
    /\ Len(tables["ethereum_logs"]) = 2


---------------------------------------------------------------------------
(* Further properties of the pipeline (checked under Spec).                *)

PayloadRows(tbls) ==
    Len(tbls["swap_logs"]) + Len(tbls["burn_logs"]) + Len(tbls["mint_logs"])
        + Len(tbls["flash_logs"])

\* C15: a payload insert is issued for an item only after the item's envelope
\* insert returned Ok; after a failed envelope insert no payload insert is
\* issued for the item; the payload rows never outnumber the envelope rows.
C15_EnvelopeFirst ==
    /\ \A b \in 1..Len(oplog) :
          oplog[b].op \in PayloadOps =>
              \E a \in 1..(b - 1) :
                  /\ oplog[a].item = oplog[b].item
                  /\ oplog[a].op = "insert_transaction_logs"
                  /\ oplog[a].ok
    /\ \A a, b \in 1..Len(oplog) :
          (oplog[a].op = "insert_transaction_logs" /\ ~oplog[a].ok)
              => ~(oplog[b].op \in PayloadOps /\ oplog[b].item = oplog[a].item)
    /\ PayloadRows(tables) <= Len(tables["ethereum_logs"])

C15_Witness ==
    /\ Len(delivered) = 2
    /\ delivered[2].tag = "Mint"
    /\ Len(OpsOf(1)) = 2
    /\ OpsOf(1)[2].op \in PayloadOps
    /\ OpsOf(1)[2].ok
    /\ Len(OpsOf(2)) = 1
    /\ ~OpsOf(2)[1].ok
    /\ pc = "Failed"
    /\ PayloadRows(tables) = 1
    /\ Len(tables["ethereum_logs"]) = 1


\* Item i has a completed envelope insert and, for a modeled variant, a
\* completed payload insert.
Persisted(i) ==
    /\ \E a \in 1..Len(oplog) :
          oplog[a].item = i /\ oplog[a].op = "insert_transaction_logs" /\ oplog[a].ok
    /\ delivered[i].tag \in ModeledTags =>
          \E b \in 1..Len(oplog) :
              oplog[b].item = i /\ oplog[b].op \in PayloadOps /\ oplog[b].ok

\* C16: an item is requested from the stream only when the inserts of the
\* item before it have completed; at most one storage operation is in flight,
\* it belongs to the latest item, and the operations of an item are awaited
\* before those of the next.
C16_SingleConsumer ==
    /\ \A i \in 1..(Len(delivered) - 1) : Persisted(i)
    /\ Cardinality(inflight) <= 1
    /\ \A f \in inflight : f.item = Len(delivered)
    /\ \A a, b \in 1..Len(oplog) : a < b => oplog[a].item <= oplog[b].item
    /\ \A f \in inflight : \A a \in 1..Len(oplog) :
          ~(oplog[a].op = f.op /\ oplog[a].item = f.item)

C16_Witness ==
    /\ Len(delivered) = 3
    /\ Persisted(1)
    /\ Persisted(2)
    /\ delivered[1].tag = "Swap"
    /\ delivered[2].tag = "Flash"
    /\ inflight = {[op |-> "insert_burn_event", item |-> 3]}


Running == {"CreateTable", "Subscribe", "Listening", "PersistEnvelope", "PersistPayload"}

\* C17: a connection error seen by the spawned task leaves the driver where
\* it is; the driver is in Failed only when the operation it awaited last
\* returned an error, and until then it goes on against the dead connection.
C17_BackgroundTask ==
    /\ pc = "Failed" => (oplog # <<>> /\ ~oplog[Len(oplog)].ok)
    /\ (conn = "dead" /\ AllOpsOk) => (pc \in Running \cup {"Stopped"})
    /\ (conn = "dead" /\ AllOpsOk) => result # "Err"

C17_Witness ==
    /\ conn = "dead"
    /\ pc = "PersistEnvelope"
    /\ AllOpsOk
    /\ Len(delivered) = 2
    /\ Len(tables["ethereum_logs"]) = 1


\* The rows a table held are still there, in place and unchanged.
Kept(old, new) == Len(new) >= Len(old) /\ SubSeq(new, 1, Len(old)) = old

\* The step completed an insert that returned Ok.
InsertedIn(log, logNext) ==
    /\ Len(logNext) = Len(log) + 1
    /\ logNext[Len(logNext)].op \in InsertOps
    /\ logNext[Len(logNext)].ok

\* C18: every step keeps every row of the five tables as it was; a step that
\* completes an insert adds one row to the insert's table and none elsewhere;
\* every other step (a failed insert, the wildcard arm, a stream step, the
\* stop) leaves the tables as they are.
C18_AppendOnly ==
    [][/\ \A t \in AllTables : Kept(tables[t], tables'[t])
       /\ InsertedIn(oplog, oplog') =>
             /\ RowCount(tables') = RowCount(tables) + 1
             /\ Len(tables'[OpTable(oplog'[Len(oplog')].op)])
                   = Len(tables[OpTable(oplog'[Len(oplog')].op)]) + 1
       /\ ~InsertedIn(oplog, oplog') => tables' = tables]_vars

C18_Witness ==
    /\ Len(delivered) = 3
    /\ delivered[1].tag = "Burn"
    /\ delivered[2].tag = "Burn"
    /\ delivered[3].tag = "Other"
    /\ Len(tables["burn_logs"]) = 2
    /\ Len(tables["ethereum_logs"]) = 3
    /\ pc = "Stopped"


\* An operation of the startup sequence returned Err.
StartupFailed ==
    \E k \in 1..Len(oplog) : oplog[k].op \in {"connect", "create_table"} /\ ~oplog[k].ok

InsertIssued ==
    \/ \E k \in 1..Len(oplog) : oplog[k].op \in InsertOps
    \/ \E f \in inflight : f.op \in InsertOps

\* C19: a stream item is read and an insert issued only after DB::new and
\* then create_table have returned Ok, with the five tables in place; when
\* either fails initialise returns the error with no item read, no insert
\* issued and no row written.
C19_StartupOrder ==
    /\ (delivered # <<>> \/ InsertIssued \/ RowCount(tables) > 0) =>
          /\ Len(oplog) >= 2
          /\ oplog[1] = Op("connect", 0, TRUE, <<>>)
          /\ oplog[2] = Op("create_table", 0, TRUE, <<>>)
          /\ creates = <<Created(TRUE, EmptyTables)>>
          /\ schema = AllTables
    /\ StartupFailed =>
          /\ pc = "Failed"
          /\ result = "Err"
          /\ delivered = <<>>
          /\ ~InsertIssued
          /\ inflight = {}
          /\ tables = EmptyTables

C19_Witness ==
    /\ oplog = <<Op("connect", 0, TRUE, <<>>), Op("create_table", 0, FALSE, <<>>)>>
    /\ result = "Err"
    /\ pending = 2
    /\ delivered = <<>>
    /\ schema = {}


\* The row id written by the Ok insert, one of `names`, awaited for item i.
RowIdOf(i, names) ==
    LET a == CHOOSE a \in 1..Len(oplog) :
                 oplog[a].item = i /\ oplog[a].op \in names /\ oplog[a].ok
    IN  oplog[a].id[1]

RowById(rows, id) == rows[CHOOSE k \in 1..Len(rows) : rows[k].id = id]

\* The columns of a row other than its id.
Content(row) == [c \in DOMAIN row \ {"id"} |-> row[c]]

\* C20: when the same (event, meta) pair is delivered twice and its inserts
\* return Ok, each delivery has an envelope row of its own and, for a modeled
\* variant, a payload row of its own: equal in content, distinct in id.
C20_NoDedup ==
    \A i, j \in 1..Len(delivered) :
        (i < j /\ delivered[i] = delivered[j] /\ Persisted(i) /\ Persisted(j)) =>
            /\ RowIdOf(i, {"insert_transaction_logs"}) # RowIdOf(j, {"insert_transaction_logs"})
            /\ HasId(tables["ethereum_logs"], RowIdOf(i, {"insert_transaction_logs"}))
            /\ HasId(tables["ethereum_logs"], RowIdOf(j, {"insert_transaction_logs"}))
            /\ Content(RowById(tables["ethereum_logs"], RowIdOf(i, {"insert_transaction_logs"})))
                  = Content(RowById(tables["ethereum_logs"], RowIdOf(j, {"insert_transaction_logs"})))
            /\ delivered[i].tag \in ModeledTags =>
                  LET t == TableOf(delivered[i].tag)
                  IN  /\ RowIdOf(i, PayloadOps) # RowIdOf(j, PayloadOps)
                      /\ HasId(tables[t], RowIdOf(i, PayloadOps))
                      /\ HasId(tables[t], RowIdOf(j, PayloadOps))
                      /\ Content(RowById(tables[t], RowIdOf(i, PayloadOps)))
                            = Content(RowById(tables[t], RowIdOf(j, PayloadOps)))

C20_Witness ==
    /\ Len(delivered) = 2
    /\ delivered[1] = delivered[2]
    /\ delivered[1].tag = "Swap"
    /\ Persisted(1)
    /\ Persisted(2)
    /\ Len(tables["ethereum_logs"]) = 2
    /\ Len(tables["swap_logs"]) = 2


---------------------------------------------------------------------------
(* Further properties of the codecs (checked under SpecCodec).             *)

\* C21: from_sql returns a value only for a buffer of exactly the type's
\* width; a longer buffer is answered with an error, never with a value read
\* from its first bytes.
C21_ExactWidth ==
    cpc = "decodedRaw" =>
        /\ cres.tag = "Ok" => Len(cbuf) = Width(cty)
        /\ Len(cbuf) > Width(cty) => cres = Err


\* 2^256 as 33 digits, least significant first.
TwoTo256 == Fill(U256Width, 0) \o <<1>>

\* C22: to_sql writes exactly the type's width in bytes (20, 32, 32, 16): an
\* address as its bytes in order, an integer most significant digit first with
\* zero bytes in front of a small value; a negative I256 v is written as the
\* unsigned form of v + 2^256, that is, the bytes written and |v| sum to 2^256.
C22_FixedWidth ==
    cpc = "encoded" =>
        /\ Len(cbuf) = Width(cty)
        /\ \A k \in 1..Len(cbuf) : cbuf[k] \in 0..255
        /\ cty = "Address" => cbuf = cval
        /\ cty # "Address" =>
              \A k \in 1..Width(cty) : cbuf[k] = cval[Width(cty) + 1 - k]
        /\ (cty = "WI256" /\ I256_is_negative(cval)) =>
              AddFrom(Reverse(cbuf), I256_unsigned_abs(cval), 1, 0) = TwoTo256

\* Minus one (raw digits all ff, magnitude one) is written as 32 bytes ff.
C22_Witness ==
    /\ cpc = "encoded"
    /\ cty = "WI256"
    /\ I256_is_negative(cval)
    /\ I256_unsigned_abs(cval) = Digit(U256Width, 1, 1)
    /\ cbuf = Fill(U256Width, 255)

=============================================================================
